---- MODULE Spec2Model ----
(***************************************************************************)
(* Model of the Bedrock package downloader (download_bedrock_appx.js):     *)
(* range probe, strategy decision, parallel segment downloads supervised   *)
(* by a polling progress monitor, ordered aggregation of the segment      *)
(* files, and the single-stream fallback; and of fetchBedrockVersions      *)
(* (fetch_bedrock_versions.js, generate_version_json.js) with its cache    *)
(* file.                                                                   *)
(*                                                                         *)
(* File contents are sequences of byte intervals <<lo, hi>> of the remote  *)
(* object, so that sizes of many megabytes stay cheap to explore.          *)
(***************************************************************************)
EXTENDS Integers, Sequences, FiniteSets, TLC

VARIABLES
    objSize,        \* environment: size in bytes of the remote object
    pc,             \* position of downloadWithResume / multiPartDownload
    fileSize,       \* local `fileSize` of downloadWithResume
    rangeSupported, \* local `rangeSupported` of downloadWithResume
    probe,          \* what the two HEAD requests answered (history)
    warnings,       \* number of console.log warnings written by the catch block
    segState,       \* per segment: Pending, InFlight, Complete, Failed
    segRange,       \* per segment: the <<start, end>> of its Range header
    segReq,         \* per segment: position of its got stream
    retryCount,     \* per segment: retries used while the request awaits its response
    partFile,       \* per segment: the file `${dest}.part${i}`
    faulty,         \* environment: segments whose requests have met a fault
    downloaded,     \* `downloaded` array of the progress monitor
    interval,       \* TRUE while the setInterval timer is registered
    lastEvent,      \* the last progress line written to stdout
    destFile,       \* the file at `dest`
    ws,             \* the destination write stream of concatParts
    concat,         \* concatParts: index of the part being read, and whether it was piped
    fb,             \* state of the fallback stream
    calls,          \* counters of got() streams started (history)
    rSize,          \* input of the range computation: fileSize
    rParts,         \* input of the range computation: PARTS
    rRanges,        \* result of the range computation
    script,         \* which fetchBedrockVersions: "A" fetch_bedrock_versions.js, "B" generate_version_json.js
    cacheFile,      \* the file bedrock_versions.json
    cpc,            \* position of fetchBedrockVersions
    api,            \* what the version API answered to the last call (history)
    ret,            \* how the last call of fetchBedrockVersions ended
    nCalls,         \* number of calls made; also the clock of new Date()
    lfn,            \* bedrock.js: the function called, "download" or "install"
    onProgress,     \* bedrock.js: TRUE when a progress callback was passed
    lpc,            \* bedrock.js: position of the call
    listeners,      \* bedrock.js: listeners of this call registered with the event system
    unlisten,       \* bedrock.js: which of unlistenProgress / unlistenError is set
    invoked,        \* bedrock.js: TRUE once the backend command was invoked
    lret,           \* bedrock.js: how the returned promise settled
    delivered,      \* bedrock.js: events handed to the callback, by type, and how many after settling
    verStr,         \* versionInRange: its argument, a string of three dotted numbers
    verResult,      \* versionInRange: its result
    retries,        \* fetchWithRetry: its `retries` argument
    ri,             \* fetchWithRetry: the loop variable i
    rpc,            \* fetchWithRetry: position of the call
    attempts,       \* fetchWithRetry: outcome of each fetchJson call so far (history)
    waits,          \* fetchWithRetry: the timeouts waited so far, in ms (history)
    rret            \* fetchWithRetry: how the call ended

vars == <<objSize, pc, fileSize, rangeSupported, probe, warnings, segState,
          segRange, segReq, retryCount, partFile, faulty, downloaded,
          interval, lastEvent, destFile, ws, concat, fb, calls,
          rSize, rParts, rRanges,
          script, cacheFile, cpc, api, ret, nCalls,
          lfn, onProgress, lpc, listeners, unlisten, invoked, lret, delivered,
          verStr, verResult, retries, ri, rpc, attempts, waits, rret>>

dlVars == <<objSize, pc, fileSize, rangeSupported, probe, warnings, segState,
            segRange, segReq, retryCount, partFile, faulty, downloaded,
            interval, lastEvent, destFile, ws, concat, fb, calls>>

rangeVars == <<rSize, rParts, rRanges>>

cacheVars == <<script, cacheFile, cpc, api, ret, nCalls>>

listenVars == <<lfn, onProgress, lpc, listeners, unlisten, invoked, lret,
                delivered>>

verVars == <<verStr, verResult>>

retryVars == <<retries, ri, rpc, attempts, waits, rret>>

auxVars == <<listenVars, verVars, retryVars>>

(***************************************************************************)
(* Program constants                                                       *)
(***************************************************************************)
PARTS == 4
RETRY_LIMIT == 5
MULTIPART_MIN == 10 * 1024 * 1024

(***************************************************************************)
(* Bounds of the exploration                                               *)
(***************************************************************************)
MaxChunks == 2       \* a stream delivers its body in at most this many chunks
MaxFaulty == 1       \* network faults hit at most this many segments
MaxRangeSize == 24   \* small file sizes tried by the range computation
MaxRangeParts == 5   \* PARTS values tried by the range computation
MaxFetchCalls == 2   \* calls of fetchBedrockVersions in one behaviour
MaxVersions == 2     \* entries of the `versions` array in an API answer
MaxMajor == 2        \* largest first component of a version tried
MaxMinor == 22       \* largest second component of a version tried
MaxPatch == 100      \* largest third component of a version tried
MaxRetries == 4      \* largest `retries` argument of fetchWithRetry tried
MaxEvents == 4       \* backend events delivered to one progress callback

\* sizes of the remote object: below and at the threshold, and the 16 MB
\* scenario above it
ObjectSizes == {5000000, MULTIPART_MIN, 16000000}

Parts == 0 .. PARTS - 1

\* JavaScript values of `fileSize` that are not sizes
Undefined == -2
NaN == -1

Min(a, b) == IF a < b THEN a ELSE b

\* Math.ceil(a / b) for a >= 0, b >= 1
CeilDiv(a, b) == (a + b - 1) \div b

\* JavaScript truthiness of a number-or-undefined value: undefined, NaN and 0
\* are falsy
Truthy(x) == x > 0

(***************************************************************************)
(* Segment ranges, as multiPartDownload computes them                      *)
(***************************************************************************)
\* variant: the part size rounded down
PartSizeFloor(size, parts) == size \div parts

PartSize(size, parts) == CeilDiv(size, parts)

PartStart(i, size, parts) == i * PartSize(size, parts)

\* variant: each range runs on into the first byte of the next
PartEndOverlapping(i, size, parts) ==
    Min((i + 1) * PartSize(size, parts), size - 1)

PartEnd(i, size, parts) == Min((i + 1) * PartSize(size, parts) - 1, size - 1)

SegmentRanges(size, parts) ==
    [i \in 0 .. parts - 1 |-> <<PartStart(i, size, parts), PartEnd(i, size, parts)>>]

(***************************************************************************)
(* Files: a file either does not exist or holds a sequence of intervals    *)
(***************************************************************************)
NoFile == [exists |-> FALSE, data |-> <<>>]
EmptyFile == [exists |-> TRUE, data |-> <<>>]

RECURSIVE DataSize(_)
DataSize(d) ==
    IF d = <<>> THEN 0 ELSE (Head(d)[2] - Head(d)[1] + 1) + DataSize(Tail(d))

\* fs.statSync(f).size
FileSize(f) == DataSize(f.data)

\* appending the bytes lo..hi to a byte sequence; adjacent intervals merge
AppendBytes(d, lo, hi) ==
    IF hi < lo THEN d
    ELSE IF d # <<>> /\ d[Len(d)][2] + 1 = lo
         THEN [d EXCEPT ![Len(d)] = <<d[Len(d)][1], hi>>]
         ELSE Append(d, <<lo, hi>>)

RECURSIVE Concat(_, _)
Concat(d, e) ==
    IF e = <<>> THEN d ELSE Concat(AppendBytes(d, Head(e)[1], Head(e)[2]), Tail(e))

\* bytes a stream delivers in one chunk of a body of `len` bytes
ChunkSize(len) == CeilDiv(len, MaxChunks)

RECURSIVE SumTo(_, _)
SumTo(f, n) == IF n = 0 THEN 0 ELSE f[n - 1] + SumTo(f, n - 1)

(***************************************************************************)
(* Initial state: the script has asked for the version and calls           *)
(* downloadWithResume(info.url, dest); the downloads directory is empty.   *)
(***************************************************************************)
NoEvent == [emitted |-> FALSE, transferred |-> 0, total |-> 0]

NoStream == [open |-> FALSE, buf |-> <<>>, ended |-> FALSE, finished |-> FALSE]

NoFallback ==
    [req |-> "none", retry |-> 0, received |-> 0, respTotal |-> 0,
     downloaded |-> 0, total |-> 0]

IdleDownload ==
    /\ pc = "getFileSize"
    /\ fileSize = Undefined
    /\ rangeSupported = FALSE
    /\ probe = [size |-> "none", ranges |-> "none"]
    /\ warnings = 0
    /\ segState = [i \in Parts |-> "Pending"]
    /\ segRange = [i \in Parts |-> <<0, 0>>]
    /\ segReq = [i \in Parts |-> "none"]
    /\ retryCount = [i \in Parts |-> 0]
    /\ partFile = [i \in Parts |-> NoFile]
    /\ faulty = {}
    /\ downloaded = [i \in Parts |-> 0]
    /\ interval = FALSE
    /\ lastEvent = NoEvent
    /\ destFile = NoFile
    /\ ws = NoStream
    /\ concat = [idx |-> 0, piped |-> FALSE]
    /\ fb = NoFallback
    /\ calls = [part |-> 0, fallback |-> 0]

InitDownload ==
    /\ objSize \in ObjectSizes
    /\ IdleDownload

\* fs.existsSync(path) is false: no cache file yet
NoCacheFile == [exists |-> FALSE]

\* fetchBedrockVersions has not been called
IdleCache ==
    /\ cacheFile = NoCacheFile
    /\ cpc = "idle"
    /\ api = [kind |-> "none"]
    /\ ret = [kind |-> "none"]
    /\ nCalls = 0

\* no function of bedrock.js has been called
IdleListen ==
    /\ lfn = "download"
    /\ onProgress = FALSE
    /\ lpc = "idle"
    /\ listeners = {}
    /\ unlisten = [progress |-> FALSE, error |-> FALSE]
    /\ invoked = FALSE
    /\ lret = "none"
    /\ delivered = [progress |-> 0, error |-> 0, after |-> 0]

\* versionInRange and fetchWithRetry have not been called
IdleVersion == verStr = <<>> /\ verResult = "none"

IdleRetry ==
    /\ retries = 0
    /\ ri = 0
    /\ rpc = "idle"
    /\ attempts = <<>>
    /\ waits = <<>>
    /\ rret = [kind |-> "none"]

IdleAux == IdleListen /\ IdleVersion /\ IdleRetry

Init ==
    /\ InitDownload
    /\ rSize = 0
    /\ rParts = 0
    /\ rRanges = <<>>
    /\ script = "A"
    /\ IdleCache
    /\ IdleAux

(***************************************************************************)
(* downloadWithResume: the strategy decision                               *)
(***************************************************************************)
\* variants of the condition: the threshold included, the range answer ignored
UseMultiPartFromThreshold(size, ranges) ==
    Truthy(size) /\ ranges /\ size >= MULTIPART_MIN

UseMultiPartAnyServer(size, ranges) ==
    Truthy(size) /\ size > MULTIPART_MIN

\* the condition of the `if` that selects multiPartDownload
UseMultiPart(size, ranges) ==
    Truthy(size) /\ ranges /\ size > MULTIPART_MIN

\* multiPartDownload up to its `await Promise.all(tasks)`: the loop that
\* starts the PARTS downloadPart calls, then setInterval
StartMultiPart(size) ==
    /\ pc' = "parallel"
    /\ segRange' = SegmentRanges(size, PARTS)
    /\ segState' = [i \in Parts |-> "InFlight"]
    /\ segReq' = [i \in Parts |-> "connecting"]
    /\ calls' = [calls EXCEPT !.part = @ + PARTS]
    /\ downloaded' = [i \in Parts |-> 0]
    /\ interval' = TRUE
    /\ UNCHANGED <<fb, ws>>

\* the fallback branch up to the returned promise: one got() stream and one
\* write stream on `dest`
StartFallback(size) ==
    /\ pc' = "fallback"
    /\ calls' = [calls EXCEPT !.fallback = @ + 1]
    /\ fb' = [NoFallback EXCEPT !.req = "connecting",
                                 !.total = IF Truthy(size) THEN size ELSE 0]
    /\ ws' = [NoStream EXCEPT !.open = TRUE]
    /\ UNCHANGED <<segRange, segState, segReq, downloaded, interval>>

\* the code after the try/catch of downloadWithResume
Decide(size, ranges) ==
    IF UseMultiPart(size, ranges) THEN StartMultiPart(size) ELSE StartFallback(size)

\* variant: a catch block that writes nothing
CatchProbeFailureSilent == warnings' = warnings

\* the catch block: one warning line
CatchProbeFailure == warnings' = warnings + 1

\* parseInt(res.headers['content-length'], 10)
ParseContentLength(header) == IF header = "missing" THEN NaN ELSE objSize

\* the HEAD request of getFileSize answers, or fails
GetFileSizeDone ==
    /\ pc = "getFileSize"
    /\ \/ \E header \in {"missing", "present"} :
            /\ fileSize' = ParseContentLength(header)
            /\ probe' = [probe EXCEPT !.size = header]
            /\ pc' = "supportsRange"
            /\ UNCHANGED <<rangeSupported, warnings, segState, segRange, segReq,
                           downloaded, interval, ws, fb, calls>>
       \/ /\ probe' = [probe EXCEPT !.size = "threw"]
          /\ CatchProbeFailure
          /\ Decide(fileSize, rangeSupported)
          /\ UNCHANGED <<fileSize, rangeSupported>>
    /\ UNCHANGED <<objSize, retryCount, partFile, faulty, lastEvent, destFile,
                   concat, rangeVars,
                   cacheVars, auxVars>>

\* the HEAD request of supportsRange answers, or fails
SupportsRangeDone ==
    /\ pc = "supportsRange"
    /\ \/ \E accept \in {"bytes", "absent"} :
            /\ rangeSupported' = (accept = "bytes")
            /\ probe' = [probe EXCEPT !.ranges = accept]
            /\ Decide(fileSize, accept = "bytes")
            /\ UNCHANGED warnings
       \/ /\ probe' = [probe EXCEPT !.ranges = "threw"]
          /\ CatchProbeFailure
          /\ Decide(fileSize, rangeSupported)
          /\ UNCHANGED rangeSupported
    /\ UNCHANGED <<objSize, fileSize, retryCount, partFile, faulty, lastEvent,
                   destFile, concat, rangeVars,
                   cacheVars, auxVars>>

(***************************************************************************)
(* downloadPart: one got stream piped into the write stream of a part file *)
(*                                                                         *)
(* The got stream is outside the repository; it is modelled by what        *)
(* `retry: { limit: 5 }` configures: a request that fails before any body  *)
(* byte was delivered is issued again, with the same headers, until the    *)
(* limit is used up; any other failure is emitted as 'error'.              *)
(***************************************************************************)
RangeLen(i) == segRange[i][2] - segRange[i][1] + 1

\* the environment lets faults hit at most MaxFaulty segments
MayFault(i) == i \in faulty \/ Cardinality(faulty) < MaxFaulty

\* variant: the open of a part's write stream may also complete after the
\* task has finished
PartOpenAnytime(i) ==
    /\ segState[i] # "Pending"
    /\ ~partFile[i].exists
    /\ partFile' = [partFile EXCEPT ![i] = EmptyFile]
    /\ UNCHANGED <<objSize, pc, fileSize, rangeSupported, probe, warnings,
                   segState, segRange, segReq, retryCount, faulty, downloaded,
                   interval, lastEvent, destFile, ws, concat, fb, calls,
                   rangeVars, cacheVars,
                   auxVars>>

\* fs.createWriteStream(partFile): the file is created (truncated) when the
\* open completes, whatever has become of the request meanwhile. The stream
\* opens once: a Complete segment has written its file, so its open is past
PartOpen(i) ==
    /\ segState[i] \in {"InFlight", "Failed"}
    /\ ~partFile[i].exists
    /\ partFile' = [partFile EXCEPT ![i] = EmptyFile]
    /\ UNCHANGED <<objSize, pc, fileSize, rangeSupported, probe, warnings,
                   segState, segRange, segReq, retryCount, faulty, downloaded,
                   interval, lastEvent, destFile, ws, concat, fb, calls,
                   rangeVars, cacheVars,
                   auxVars>>

\* variant: a retry at any point of the request, which writes the part file
\* anew
PartRetryRewrites(i) ==
    /\ segState[i] = "InFlight"
    /\ segReq[i] \in {"connecting", "streaming"}
    /\ retryCount[i] < RETRY_LIMIT
    /\ MayFault(i)
    /\ retryCount' = [retryCount EXCEPT ![i] = @ + 1]
    /\ faulty' = faulty \cup {i}
    /\ segReq' = [segReq EXCEPT ![i] = "connecting"]
    /\ partFile' = [partFile EXCEPT ![i].data = <<>>]
    /\ UNCHANGED <<objSize, pc, fileSize, rangeSupported, probe, warnings,
                   segState, segRange, downloaded, interval,
                   lastEvent, destFile, ws, concat, fb, calls, rangeVars,
                   cacheVars, auxVars>>

\* variant: one more retry than the limit allows
PartRetryOneMore(i) ==
    /\ segState[i] = "InFlight"
    /\ segReq[i] = "connecting"
    /\ retryCount[i] <= RETRY_LIMIT
    /\ MayFault(i)
    /\ retryCount' = [retryCount EXCEPT ![i] = @ + 1]
    /\ faulty' = faulty \cup {i}
    /\ UNCHANGED <<objSize, pc, fileSize, rangeSupported, probe, warnings,
                   segState, segRange, segReq, partFile, downloaded, interval,
                   lastEvent, destFile, ws, concat, fb, calls, rangeVars,
                   cacheVars, auxVars>>

\* a transient failure before the body: got retries the same request
PartRetry(i) ==
    /\ segState[i] = "InFlight"
    /\ segReq[i] = "connecting"
    /\ retryCount[i] < RETRY_LIMIT
    /\ MayFault(i)
    /\ retryCount' = [retryCount EXCEPT ![i] = @ + 1]
    /\ faulty' = faulty \cup {i}
    /\ UNCHANGED <<objSize, pc, fileSize, rangeSupported, probe, warnings,
                   segState, segRange, segReq, partFile, downloaded, interval,
                   lastEvent, destFile, ws, concat, fb, calls, rangeVars,
                   cacheVars, auxVars>>

\* one chunk of the body reaches the part file through the pipe; once the
\* body has begun the request is not retried and its retry count is dropped
PartData(i) ==
    /\ segState[i] = "InFlight"
    /\ segReq[i] \in {"connecting", "streaming"}
    /\ partFile[i].exists
    /\ LET have == FileSize(partFile[i])
           n == Min(ChunkSize(RangeLen(i)), RangeLen(i) - have)
           lo == segRange[i][1] + have
       IN /\ n > 0
          /\ partFile' = [partFile EXCEPT
                            ![i].data = AppendBytes(@, lo, lo + n - 1)]
          /\ segReq' = [segReq EXCEPT
                          ![i] = IF have + n = RangeLen(i) THEN "ended"
                                 ELSE "streaming"]
    /\ retryCount' = [retryCount EXCEPT ![i] = 0]
    /\ UNCHANGED <<objSize, pc, fileSize, rangeSupported, probe, warnings,
                   segState, segRange, faulty, downloaded,
                   interval, lastEvent, destFile, ws, concat, fb, calls,
                   rangeVars, cacheVars,
                   auxVars>>

\* concatParts up to its first await: the write stream on `dest` is created
\* and the first part is about to be read
StartConcat ==
    /\ ws' = [NoStream EXCEPT !.open = TRUE]
    /\ concat' = [idx |-> 0, piped |-> FALSE]

\* variant: the transfer is reported done right after the join, without
\* waiting for concatParts
AfterJoinSkipsConcat ==
    /\ interval' = FALSE
    /\ pc' = "resolved"
    /\ StartConcat

\* the code of multiPartDownload after `await Promise.all(tasks)`
AfterJoin ==
    /\ interval' = FALSE
    /\ pc' = "aggregating"
    /\ StartConcat

\* variant: the join is a race, won by the first task that resolves
JoinReadyAny(states) == \E j \in Parts : states[j] = "Complete"

\* Promise.all(tasks) resolves when every task has resolved
JoinReady(states) == \A j \in Parts : states[j] = "Complete"

\* file.on('finish', resolve): the part file is complete
PartFinish(i) ==
    /\ segState[i] = "InFlight"
    /\ segReq[i] = "ended"
    /\ segState' = [segState EXCEPT ![i] = "Complete"]
    /\ segReq' = [segReq EXCEPT ![i] = "done"]
    /\ IF pc = "parallel" /\ JoinReady(segState')
       THEN AfterJoin
       ELSE UNCHANGED <<pc, interval, ws, concat>>
    /\ UNCHANGED <<objSize, fileSize, rangeSupported, probe, warnings,
                   segRange, retryCount, partFile, faulty, downloaded,
                   lastEvent, destFile, fb, calls, rangeVars,
                   cacheVars, auxVars>>

\* the rejection of a task rejects Promise.all, multiPartDownload,
\* downloadWithResume and the script's main function, in that order and
\* without any other code running
RejectTransfer == pc' = IF pc = "parallel" THEN "rejected" ELSE pc

\* variant: the error handler settles the task as if it had completed
PartErrorResolves(i) ==
    /\ segState[i] = "InFlight"
    /\ \/ segReq[i] = "connecting" /\ retryCount[i] = RETRY_LIMIT
       \/ segReq[i] = "streaming"
    /\ MayFault(i)
    /\ faulty' = faulty \cup {i}
    /\ segState' = [segState EXCEPT ![i] = "Failed"]
    /\ segReq' = [segReq EXCEPT ![i] = "error"]
    /\ IF pc = "parallel" /\ \A j \in Parts \ {i} : segState[j] = "Complete"
       THEN AfterJoin
       ELSE UNCHANGED <<pc, interval, ws, concat>>
    /\ UNCHANGED <<objSize, fileSize, rangeSupported, probe, warnings,
                   segRange, retryCount, partFile, downloaded,
                   lastEvent, destFile, fb, calls, rangeVars,
                   cacheVars, auxVars>>

\* downloadStream.on('error', reject): the retries are used up, or the
\* body broke off
PartError(i) ==
    /\ segState[i] = "InFlight"
    /\ \/ segReq[i] = "connecting" /\ retryCount[i] = RETRY_LIMIT
       \/ segReq[i] = "streaming"
    /\ MayFault(i)
    /\ faulty' = faulty \cup {i}
    /\ segState' = [segState EXCEPT ![i] = "Failed"]
    /\ segReq' = [segReq EXCEPT ![i] = "error"]
    /\ RejectTransfer
    /\ UNCHANGED <<objSize, fileSize, rangeSupported, probe, warnings,
                   segRange, retryCount, partFile, downloaded, interval,
                   lastEvent, destFile, ws, concat, fb, calls, rangeVars,
                   cacheVars, auxVars>>

(***************************************************************************)
(* The progress monitor: the setInterval callback of multiPartDownload     *)
(***************************************************************************)
\* downloaded[i] after the loop body for part i
Sample(i) ==
    IF partFile[i].exists THEN FileSize(partFile[i]) ELSE downloaded[i]

\* variant: the callback creates the part files it does not find
TickTouchesParts ==
    /\ interval
    /\ downloaded' = [i \in Parts |-> Sample(i)]
    /\ lastEvent' = [emitted |-> TRUE,
                     transferred |-> SumTo(downloaded', PARTS),
                     total |-> fileSize]
    /\ partFile' = [i \in Parts |->
                      IF partFile[i].exists THEN partFile[i] ELSE EmptyFile]
    /\ UNCHANGED <<objSize, pc, fileSize, rangeSupported, probe, warnings,
                   segState, segRange, segReq, retryCount, faulty,
                   interval, destFile, ws, concat, fb, calls, rangeVars,
                   cacheVars, auxVars>>

Tick ==
    /\ interval
    /\ downloaded' = [i \in Parts |-> Sample(i)]
    /\ lastEvent' = [emitted |-> TRUE,
                     transferred |-> SumTo(downloaded', PARTS),
                     total |-> fileSize]
    /\ UNCHANGED <<objSize, pc, fileSize, rangeSupported, probe, warnings,
                   segState, segRange, segReq, retryCount, partFile, faulty,
                   interval, destFile, ws, concat, fb, calls, rangeVars,
                   cacheVars, auxVars>>

(***************************************************************************)
(* The write stream on `dest` (fs.createWriteStream), used by concatParts  *)
(* and by the fallback                                                     *)
(***************************************************************************)
\* the open of the stream completes: `dest` is created, or truncated
DestOpen ==
    /\ ws.open
    /\ ~destFile.exists
    /\ destFile' = EmptyFile
    /\ UNCHANGED <<objSize, pc, fileSize, rangeSupported, probe, warnings,
                   segState, segRange, segReq, retryCount, partFile, faulty,
                   downloaded, interval, lastEvent, ws, concat, fb, calls,
                   rangeVars, cacheVars,
                   auxVars>>

\* the stream writes what it has buffered to the file
WsFlush ==
    /\ destFile.exists
    /\ ws.buf # <<>>
    /\ destFile' = [destFile EXCEPT !.data = Concat(@, ws.buf)]
    /\ ws' = [ws EXCEPT !.buf = <<>>]
    /\ UNCHANGED <<objSize, pc, fileSize, rangeSupported, probe, warnings,
                   segState, segRange, segReq, retryCount, partFile, faulty,
                   downloaded, interval, lastEvent, concat, fb, calls,
                   rangeVars, cacheVars,
                   auxVars>>

\* 'finish': the stream was ended and everything is written. The fallback
\* listens to it (file.on('finish', ...)) and resolves; concatParts does not
WsFinish ==
    /\ destFile.exists
    /\ ws.ended
    /\ ~ws.finished
    /\ ws.buf = <<>>
    /\ ws' = [ws EXCEPT !.finished = TRUE]
    /\ pc' = IF pc = "fallback" THEN "resolved" ELSE pc
    /\ UNCHANGED <<objSize, fileSize, rangeSupported, probe, warnings,
                   segState, segRange, segReq, retryCount, partFile, faulty,
                   downloaded, interval, lastEvent, destFile, concat, fb,
                   calls, rangeVars,
                   cacheVars, auxVars>>

(***************************************************************************)
(* concatParts                                                             *)
(***************************************************************************)
\* variant: the parts read from the last to the first
PartToReadReversed(idx) == PARTS - 1 - idx

\* the part the loop reads in its iteration number idx
PartToRead(idx) == idx

\* readStream.pipe(writeStream, { end: false }): the 'data' events of the
\* part being read hand its whole content to the write stream
ConcatData ==
    /\ pc = "aggregating"
    /\ ~concat.piped
    /\ partFile[PartToRead(concat.idx)].exists
    /\ ws' = [ws EXCEPT !.buf = Concat(@, partFile[PartToRead(concat.idx)].data)]
    /\ concat' = [concat EXCEPT !.piped = TRUE]
    /\ UNCHANGED <<objSize, pc, fileSize, rangeSupported, probe, warnings,
                   segState, segRange, segReq, retryCount, partFile, faulty,
                   downloaded, interval, lastEvent, destFile, fb, calls,
                   rangeVars, cacheVars,
                   auxVars>>

\* variant: the loop without fs.unlinkSync(part)
ConcatEndKeepsPart ==
    /\ pc = "aggregating"
    /\ concat.piped
    /\ IF concat.idx + 1 < PARTS
       THEN /\ concat' = [idx |-> concat.idx + 1, piped |-> FALSE]
            /\ UNCHANGED <<ws, pc>>
       ELSE /\ ws' = [ws EXCEPT !.ended = TRUE]
            /\ pc' = "resolved"
            /\ UNCHANGED concat
    /\ UNCHANGED <<objSize, fileSize, rangeSupported, probe, warnings,
                   segState, segRange, segReq, retryCount, partFile, faulty,
                   downloaded, interval, lastEvent, destFile, fb, calls,
                   rangeVars, cacheVars,
                   auxVars>>

\* readStream.on('end', resolve), then fs.unlinkSync(part) and the next
\* iteration; after the last one writeStream.end() and the return, which
\* resolves multiPartDownload, downloadWithResume and lets the script
\* print that the file was downloaded
ConcatEnd ==
    /\ pc = "aggregating"
    /\ concat.piped
    /\ partFile' = [partFile EXCEPT ![PartToRead(concat.idx)] = NoFile]
    /\ IF concat.idx + 1 < PARTS
       THEN /\ concat' = [idx |-> concat.idx + 1, piped |-> FALSE]
            /\ UNCHANGED <<ws, pc>>
       ELSE /\ ws' = [ws EXCEPT !.ended = TRUE]
            /\ pc' = "resolved"
            /\ UNCHANGED concat
    /\ UNCHANGED <<objSize, fileSize, rangeSupported, probe, warnings,
                   segState, segRange, segReq, retryCount, faulty,
                   downloaded, interval, lastEvent, destFile, fb, calls,
                   rangeVars, cacheVars,
                   auxVars>>

\* readStream.on('error', reject): reading a part fails
ConcatError ==
    /\ pc = "aggregating"
    /\ ~concat.piped
    /\ pc' = "rejected"
    /\ UNCHANGED <<objSize, fileSize, rangeSupported, probe, warnings,
                   segState, segRange, segReq, retryCount, partFile, faulty,
                   downloaded, interval, lastEvent, destFile, ws, concat, fb,
                   calls, rangeVars,
                   cacheVars, auxVars>>

(***************************************************************************)
(* The fallback stream of downloadWithResume                               *)
(***************************************************************************)
\* a transient failure before the body: got retries the request
FbRetry ==
    /\ pc = "fallback"
    /\ fb.req = "connecting"
    /\ fb.retry < RETRY_LIMIT
    /\ fb' = [fb EXCEPT !.retry = @ + 1]
    /\ UNCHANGED <<objSize, pc, fileSize, rangeSupported, probe, warnings,
                   segState, segRange, segReq, retryCount, partFile, faulty,
                   downloaded, interval, lastEvent, destFile, ws, concat,
                   calls, rangeVars,
                   cacheVars, auxVars>>

\* the response arrives, with or without a content-length
FbResponse ==
    /\ pc = "fallback"
    /\ fb.req = "connecting"
    /\ \E len \in {0, objSize} :
          fb' = [fb EXCEPT !.req = "streaming", !.respTotal = len]
    /\ UNCHANGED <<objSize, pc, fileSize, rangeSupported, probe, warnings,
                   segState, segRange, segReq, retryCount, partFile, faulty,
                   downloaded, interval, lastEvent, destFile, ws, concat,
                   calls, rangeVars,
                   cacheVars, auxVars>>

\* one chunk: the 'downloadProgress' handler runs and the pipe hands the
\* chunk to the write stream; after the last chunk the pipe ends the stream
FbData ==
    /\ pc = "fallback"
    /\ fb.req = "streaming"
    /\ LET n == Min(ChunkSize(objSize), objSize - fb.received)
           transferred == fb.received + n
           total == IF fb.respTotal # 0 THEN fb.respTotal ELSE fb.total
       IN /\ n > 0
          /\ fb' = [fb EXCEPT !.received = transferred,
                              !.downloaded = transferred,
                              !.total = total,
                              !.req = IF transferred = objSize THEN "ended"
                                      ELSE "streaming"]
          /\ lastEvent' = [emitted |-> TRUE, transferred |-> transferred,
                           total |-> total]
          /\ ws' = [ws EXCEPT
                      !.buf = AppendBytes(@, fb.received, transferred - 1),
                      !.ended = (transferred = objSize)]
    /\ UNCHANGED <<objSize, pc, fileSize, rangeSupported, probe, warnings,
                   segState, segRange, segReq, retryCount, partFile, faulty,
                   downloaded, interval, destFile, concat, calls, rangeVars,
                   cacheVars, auxVars>>

\* downloadStream.on('error', reject)
FbError ==
    /\ pc = "fallback"
    /\ \/ fb.req = "connecting" /\ fb.retry = RETRY_LIMIT
       \/ fb.req = "streaming"
    /\ fb' = [fb EXCEPT !.req = "error"]
    /\ pc' = "rejected"
    /\ UNCHANGED <<objSize, fileSize, rangeSupported, probe, warnings,
                   segState, segRange, segReq, retryCount, partFile, faulty,
                   downloaded, interval, lastEvent, destFile, ws, concat,
                   calls, rangeVars,
                   cacheVars, auxVars>>

(***************************************************************************)
(* The downloader                                                          *)
(***************************************************************************)
Next ==
    \/ GetFileSizeDone
    \/ SupportsRangeDone
    \/ \E i \in Parts : PartOpen(i)
    \/ \E i \in Parts : PartRetry(i)
    \/ \E i \in Parts : PartData(i)
    \/ \E i \in Parts : PartFinish(i)
    \/ \E i \in Parts : PartError(i)
    \/ Tick
    \/ DestOpen
    \/ WsFlush
    \/ WsFinish
    \/ ConcatData
    \/ ConcatEnd
    \/ ConcatError
    \/ FbRetry
    \/ FbResponse
    \/ FbData
    \/ FbError

Spec == Init /\ [][Next]_vars

(***************************************************************************)
(* The range computation on its own, for any file size and any PARTS       *)
(***************************************************************************)
RangeSizes == (1 .. MaxRangeSize) \cup {16000000}

InitRanges ==
    /\ objSize = 16000000
    /\ IdleDownload
    /\ rSize \in RangeSizes
    /\ rParts \in 1 .. MaxRangeParts
    /\ rRanges = <<>>
    /\ script = "A"
    /\ IdleCache
    /\ IdleAux

\* the loop of multiPartDownload, collecting the ranges it passes on
ComputeRanges ==
    /\ rRanges = <<>>
    /\ rRanges' = [k \in 1 .. rParts |-> SegmentRanges(rSize, rParts)[k - 1]]
    /\ UNCHANGED <<rSize, rParts, dlVars, cacheVars, auxVars>>

NextRanges == ComputeRanges

SpecRanges == InitRanges /\ [][NextRanges]_vars

(***************************************************************************)
(* fetchBedrockVersions and its cache file bedrock_versions.json.          *)
(* Script "A" is apps/app/scripts/fetch_bedrock_versions.js, script "B" is *)
(* scripts/generate_version_json.js.                                       *)
(*                                                                         *)
(* A JavaScript object is a function from its own field names to values;   *)
(* reading a field it does not have gives undefined. A JSON text is        *)
(* [json |-> object], [null |-> TRUE] for the text `null`, or              *)
(* [garbage |-> TRUE] for a body that is not JSON. Of a version entry the  *)
(* model keeps one field the code copies (id / version) and one it fills   *)
(* with a default (platform / sha256). Writing the file is taken to        *)
(* succeed.                                                                *)
(***************************************************************************)
JsUndefined == "undefined"
JsNull == "null"

MIN_VERSION == "1.16.40"
MAX_VERSION == "1.21.94"

\* o.f
Get(o, f) == IF f \in DOMAIN o THEN o[f] ELSE JsUndefined

\* a || b
Or(a, b) == IF a \in {JsUndefined, JsNull, ""} THEN b ELSE a

\* JSON.stringify of a flat object: fields whose value is undefined are left
\* out
StringifyObject(o) == [f \in {g \in DOMAIN o : o[g] # JsUndefined} |-> o[f]]

\* JSON.stringify(result, null, 2)
Stringify(r) ==
    LET vs == [k \in 1 .. Len(r.versions) |-> StringifyObject(r.versions[k])]
    IN  [json |->
            IF Get(r, "latest") # JsUndefined
            THEN [latest |-> r.latest, versions |-> vs,
                  fetched_at |-> r.fetched_at]
            ELSE [versions |-> vs, fetched_at |-> r.fetched_at]]

IsJson(text) == "garbage" \notin DOMAIN text

IsNull(text) == "null" \in DOMAIN text

\* JSON.parse(text) of a text that is JSON and not `null`
Parse(text) == text.json

\* v.split('.').map(Number) for the version strings the API answers with
VersionParts(v) ==
    CASE v = "1.16.40" -> <<1, 16, 40>>
      [] v = "1.17.100" -> <<1, 17, 100>>
      [] v = "1.21.94" -> <<1, 21, 94>>
      [] v = "1.22.0" -> <<1, 22, 0>>

\* versionInRange: each of the three components within the components of
\* MIN_VERSION and MAX_VERSION
ComponentsInRange(cur) ==
    LET min == VersionParts(MIN_VERSION)
        max == VersionParts(MAX_VERSION)
    IN  \A i \in 1 .. 3 : ~(cur[i] < min[i]) /\ ~(cur[i] > max[i])

VersionInRange(v) == ComponentsInRange(VersionParts(v))

\* a.localeCompare(b, undefined, { numeric: true }) < 0 on version strings
IdLess(a, b) ==
    LET x == VersionParts(a)
        y == VersionParts(b)
    IN  \E i \in 1 .. 3 :
            /\ x[i] < y[i]
            /\ \A j \in 1 .. i - 1 : x[j] = y[j]

\* bedrockVersions.sort((a, b) => b.id.localeCompare(a.id, ...)): newest
\* first, equal ids in their order
RECURSIVE InsertDesc(_, _)
InsertDesc(x, s) ==
    IF s = <<>> THEN <<x>>
    ELSE IF IdLess(Head(s).id, x.id) THEN <<x>> \o s
    ELSE <<Head(s)>> \o InsertDesc(x, Tail(s))

RECURSIVE SortDesc(_)
SortDesc(s) ==
    IF s = <<>> THEN <<>>
    ELSE InsertDesc(s[Len(s)], SortDesc(SubSeq(s, 1, Len(s) - 1)))

\* script A: data.versions.map(version => ({ id: version.id, ...,
\* platform: version.platform || 'windows', ... }))
TransformedVersions(data) ==
    [k \in 1 .. Len(data.versions) |->
        [id |-> Get(data.versions[k], "id"),
         platform |-> Or(Get(data.versions[k], "platform"), "windows")]]

\* script B: the filter calls version.version.split, which throws for an
\* entry without `version`
FilterThrows(response) ==
    \E k \in 1 .. Len(response.versions) :
        Get(response.versions[k], "version") = JsUndefined

\* script B: response.versions.filter(...).map(...), then the sort
BedrockVersions(response) ==
    LET inRange == SelectSeq(response.versions,
                             LAMBDA e : VersionInRange(e.version))
    IN  SortDesc([k \in 1 .. Len(inRange) |->
                    [id |-> inRange[k].version,
                     sha256 |-> Or(Get(inRange[k], "sha256"), JsNull)]])

\* variant: the catch block rethrows without looking for the cache
CatchErrorRethrows(error, cache) == [kind |-> "error", err |-> error]

\* the catch block: the cached content if the file exists, else the error
CatchError(error, cache) ==
    IF cache.exists
    THEN [kind |-> "value", val |-> Parse(cache.text)]
    ELSE [kind |-> "error", err |-> error]

\* what the version API can answer
SeqsUpTo(S, n) == UNION {[1 .. k -> S] : k \in 0 .. n}

EntriesA == {[id |-> "1.21.94"], [platform |-> "uwp"]}

EntriesB == {[version |-> "1.21.94", sha256 |-> "abc"], [version |-> "1.16.40"],
             [version |-> "1.17.100"], [sha256 |-> "abc"]}

ApiTexts(s) ==
    IF s = "A"
    THEN {[json |-> [versions |-> vs, latest |-> "latest"]] :
              vs \in SeqsUpTo(EntriesA, MaxVersions)}
         \cup {[json |-> [versions |-> vs]] :
                  vs \in SeqsUpTo(EntriesA, MaxVersions)}
         \cup {[json |-> [latest |-> "latest"]], [null |-> TRUE],
               [garbage |-> TRUE]}
    ELSE {[json |-> [versions |-> vs]] :
              vs \in SeqsUpTo(EntriesB, MaxVersions)}
         \cup {[json |-> [latest |-> "latest"]], [null |-> TRUE]}

\* errors with which the request itself fails: got rejects (A);
\* fetchWithRetry throws what fetchJson rejected with last (B)
FetchErrors(s) ==
    IF s = "A" THEN {"RequestError", "HTTPError"}
    ELSE {"RequestError", "HTTPError", "SyntaxError"}

InitCache ==
    /\ objSize = 16000000
    /\ IdleDownload
    /\ rSize = 0
    /\ rParts = 0
    /\ rRanges = <<>>
    /\ script \in {"A", "B"}
    /\ IdleCache
    /\ IdleAux

\* fetchBedrockVersions is called and awaits the request
CallFetch ==
    /\ cpc = "idle"
    /\ nCalls < MaxFetchCalls
    /\ cpc' = "fetching"
    /\ nCalls' = nCalls + 1
    /\ ret' = [kind |-> "none"]
    /\ api' = [kind |-> "none"]
    /\ UNCHANGED <<dlVars, rangeVars, auxVars, script, cacheFile>>

\* the request fails: the catch block runs
FetchRejected ==
    /\ cpc = "fetching"
    /\ \E error \in FetchErrors(script) :
          /\ api' = [kind |-> "rejected", err |-> error]
          /\ ret' = CatchError(error, cacheFile)
    /\ cpc' = "idle"
    /\ UNCHANGED <<dlVars, rangeVars, auxVars, script, cacheFile, nCalls>>

\* script A after `await got(...)`: parse, transform, write, log, return;
\* an exception on the way enters the catch block
FetchedA(text) ==
    IF ~IsJson(text)
    THEN /\ ret' = CatchError("SyntaxError", cacheFile)
         /\ UNCHANGED cacheFile
    ELSE IF IsNull(text) \/ "versions" \notin DOMAIN Parse(text)
    THEN /\ ret' = CatchError("TypeError", cacheFile)
         /\ UNCHANGED cacheFile
    ELSE LET data == Parse(text)
             result == [latest |-> Get(data, "latest"),
                        versions |-> TransformedVersions(data),
                        fetched_at |-> nCalls]
         IN  /\ cacheFile' = [exists |-> TRUE, text |-> Stringify(result)]
             /\ ret' = IF result.latest = JsUndefined
                       THEN CatchError("TypeError", cacheFile')
                       ELSE [kind |-> "value", val |-> result]

\* script B after `await fetchWithRetry(...)`: validate, filter, map, sort,
\* write, return; an exception on the way enters the catch block
FetchedB(text) ==
    IF IsNull(text) \/ "versions" \notin DOMAIN Parse(text)
    THEN /\ ret' = CatchError("Error", cacheFile)
         /\ UNCHANGED cacheFile
    ELSE IF FilterThrows(Parse(text))
    THEN /\ ret' = CatchError("TypeError", cacheFile)
         /\ UNCHANGED cacheFile
    ELSE LET out == [versions |-> BedrockVersions(Parse(text)),
                     fetched_at |-> nCalls]
         IN  /\ cacheFile' = [exists |-> TRUE, text |-> Stringify(out)]
             /\ ret' = [kind |-> "value", val |-> out]

\* the request is answered
FetchResolved ==
    /\ cpc = "fetching"
    /\ \E text \in ApiTexts(script) :
          /\ api' = [kind |-> "resolved", text |-> text]
          /\ IF script = "A" THEN FetchedA(text) ELSE FetchedB(text)
    /\ cpc' = "idle"
    /\ UNCHANGED <<dlVars, rangeVars, auxVars, script, nCalls>>

NextCache ==
    \/ CallFetch
    \/ FetchRejected
    \/ FetchResolved

SpecCache == InitCache /\ [][NextCache]_vars

(***************************************************************************)
(* helpers/bedrock.js: download_bedrock_version and                        *)
(* install_bedrock_version. A listener is named by <<function, kind>>,     *)
(* standing for the event 'bedrock-<function>-<kind>'. The backend may     *)
(* emit these events at any time, also after the call has settled.         *)
(***************************************************************************)
InitListen ==
    /\ objSize = 16000000
    /\ IdleDownload
    /\ rSize = 0
    /\ rParts = 0
    /\ rRanges = <<>>
    /\ script = "A"
    /\ IdleCache
    /\ IdleVersion
    /\ IdleRetry
    /\ lfn \in {"download", "install"}
    /\ onProgress \in BOOLEAN
    /\ lpc = "idle"
    /\ listeners = {}
    /\ unlisten = [progress |-> FALSE, error |-> FALSE]
    /\ invoked = FALSE
    /\ lret = "none"
    /\ delivered = [progress |-> 0, error |-> 0, after |-> 0]

\* the function is called: with a callback it calls listen() for the
\* progress event and awaits it, without one it goes on to invoke()
CallWithListeners ==
    /\ lpc = "idle"
    /\ IF onProgress
       THEN lpc' = "listenProgress" /\ UNCHANGED invoked
       ELSE lpc' = "invoke" /\ invoked' = TRUE
    /\ UNCHANGED <<dlVars, rangeVars, cacheVars, verVars, retryVars, lfn,
                   onProgress, listeners, unlisten, lret, delivered>>

\* unlistenProgress = await listen(...progress...) fulfils; listen() for the
\* error event is called and awaited
ListenProgressDone ==
    /\ lpc = "listenProgress"
    /\ listeners' = listeners \cup {<<lfn, "progress">>}
    /\ unlisten' = [unlisten EXCEPT !.progress = TRUE]
    /\ lpc' = "listenError"
    /\ UNCHANGED <<dlVars, rangeVars, cacheVars, verVars, retryVars, lfn,
                   onProgress, invoked, lret, delivered>>

\* the first listen() rejects: the function rejects, nothing is registered
ListenProgressFails ==
    /\ lpc = "listenProgress"
    /\ lpc' = "settled"
    /\ lret' = "rejected"
    /\ UNCHANGED <<dlVars, rangeVars, cacheVars, verVars, retryVars, lfn,
                   onProgress, listeners, unlisten, invoked, delivered>>

\* unlistenError = await listen(...error...) fulfils; the try block is
\* entered and invoke() is called and awaited
ListenErrorDone ==
    /\ lpc = "listenError"
    /\ listeners' = listeners \cup {<<lfn, "error">>}
    /\ unlisten' = [unlisten EXCEPT !.error = TRUE]
    /\ lpc' = "invoke"
    /\ invoked' = TRUE
    /\ UNCHANGED <<dlVars, rangeVars, cacheVars, verVars, retryVars, lfn,
                   onProgress, lret, delivered>>

\* the second listen() rejects: the await is outside the try block, so the
\* function rejects without running the finally block
ListenErrorFails ==
    /\ lpc = "listenError"
    /\ lpc' = "settled"
    /\ lret' = "rejected"
    /\ UNCHANGED <<dlVars, rangeVars, cacheVars, verVars, retryVars, lfn,
                   onProgress, listeners, unlisten, invoked, delivered>>

\* the finally block: if (unlistenProgress) unlistenProgress();
\* if (unlistenError) unlistenError()
Cleanup ==
    listeners' = listeners \ {<<lfn, kind>> :
                                 kind \in {k \in {"progress", "error"} :
                                              unlisten[k]}}

\* invoke() fulfils or rejects: the finally block runs and the function
\* settles the same way
InvokeSettles ==
    /\ lpc = "invoke"
    /\ \E outcome \in {"resolved", "rejected"} : lret' = outcome
    /\ Cleanup
    /\ lpc' = "settled"
    /\ UNCHANGED <<dlVars, rangeVars, cacheVars, verVars, retryVars, lfn,
                   onProgress, unlisten, invoked, delivered>>

\* the backend emits an event that has a listener of this call: the
\* listener hands it to onProgress
EmitEvent ==
    /\ delivered.progress + delivered.error < MaxEvents
    /\ \E kind \in {"progress", "error"} :
          /\ <<lfn, kind>> \in listeners
          /\ delivered' = [delivered EXCEPT
                             ![kind] = @ + 1,
                             !.after = IF lpc = "settled" THEN @ + 1 ELSE @]
    /\ UNCHANGED <<dlVars, rangeVars, cacheVars, verVars, retryVars, lfn,
                   onProgress, lpc, listeners, unlisten, invoked, lret>>

NextListen ==
    \/ CallWithListeners
    \/ ListenProgressDone
    \/ ListenProgressFails
    \/ ListenErrorDone
    \/ ListenErrorFails
    \/ InvokeSettles
    \/ EmitEvent

SpecListen == InitListen /\ [][NextListen]_vars

(***************************************************************************)
(* versionInRange on its own, for any version of three dotted numbers. A   *)
(* version string is the sequence of its three digit strings, a digit      *)
(* string the sequence of its decimal digits: "1.17.0" is                  *)
(* << <<1>>, <<1, 7>>, <<0>> >>.                                           *)
(***************************************************************************)
\* the decimal digits of n
RECURSIVE Digits(_)
Digits(n) == IF n < 10 THEN <<n>> ELSE Append(Digits(n \div 10), n % 10)

\* Number(s) of a digit string
RECURSIVE ToNumber(_)
ToNumber(d) ==
    IF Len(d) = 1 THEN d[1]
    ELSE 10 * ToNumber(SubSeq(d, 1, Len(d) - 1)) + d[Len(d)]

\* parse = v => v.split('.').map(Number)
ParseVersion(v) == [k \in 1 .. Len(v) |-> ToNumber(v[k])]

VersionStrings ==
    {<<Digits(a), Digits(b), Digits(c)>> :
        a \in 0 .. MaxMajor, b \in 0 .. MaxMinor, c \in 0 .. MaxPatch}

InitVersion ==
    /\ objSize = 16000000
    /\ IdleDownload
    /\ rSize = 0
    /\ rParts = 0
    /\ rRanges = <<>>
    /\ script = "A"
    /\ IdleCache
    /\ IdleListen
    /\ IdleRetry
    /\ verStr \in VersionStrings
    /\ verResult = "none"

\* versionInRange(version) is called and returns
CheckVersion ==
    /\ verResult = "none"
    /\ verResult' = IF ComponentsInRange(ParseVersion(verStr))
                    THEN "true" ELSE "false"
    /\ UNCHANGED <<dlVars, rangeVars, cacheVars, listenVars, retryVars,
                   verStr>>

NextVersion == CheckVersion

SpecVersion == InitVersion /\ [][NextVersion]_vars

(***************************************************************************)
(* fetchWithRetry(url, retries) of generate_version_json.js. Each call of  *)
(* fetchJson settles, and a timer that was set fires: the specification    *)
(* is weakly fair.                                                         *)
(***************************************************************************)
\* what fetchJson resolves with, and the errors it rejects with
FetchValues == {"json"}

RetryErrors == {"HTTP 500", "ECONNRESET"}

InitRetry ==
    /\ objSize = 16000000
    /\ IdleDownload
    /\ rSize = 0
    /\ rParts = 0
    /\ rRanges = <<>>
    /\ script = "A"
    /\ IdleCache
    /\ IdleListen
    /\ IdleVersion
    /\ retries \in 0 .. MaxRetries
    /\ ri = 0
    /\ rpc = "idle"
    /\ attempts = <<>>
    /\ waits = <<>>
    /\ rret = [kind |-> "none"]

\* the head of the for loop with the value i: the next fetchJson call, or
\* the end of the function, which returns undefined
LoopHead(i) ==
    /\ ri' = i
    /\ IF i < retries
       THEN rpc' = "fetch" /\ UNCHANGED rret
       ELSE rpc' = "done" /\ rret' = [kind |-> "value", res |-> JsUndefined]

\* fetchWithRetry is called
CallFetchWithRetry ==
    /\ rpc = "idle"
    /\ LoopHead(0)
    /\ UNCHANGED <<dlVars, rangeVars, cacheVars, listenVars, verVars,
                   retries, attempts, waits>>

\* return await fetchJson(url): the call fulfils
AttemptSucceeds ==
    /\ rpc = "fetch"
    /\ \E value \in FetchValues :
          /\ attempts' = Append(attempts, [ok |-> TRUE, res |-> value])
          /\ rret' = [kind |-> "value", res |-> value]
    /\ rpc' = "done"
    /\ UNCHANGED <<dlVars, rangeVars, cacheVars, listenVars, verVars,
                   retries, ri, waits>>

\* variant: the catch block compares i with retries instead of retries - 1
AttemptFailsThrowsLate ==
    /\ rpc = "fetch"
    /\ \E error \in RetryErrors :
          /\ attempts' = Append(attempts, [ok |-> FALSE, res |-> error])
          /\ IF ri = retries
             THEN /\ rret' = [kind |-> "error", res |-> error]
                  /\ rpc' = "done"
                  /\ UNCHANGED waits
             ELSE /\ waits' = Append(waits, 1000 * (ri + 1))
                  /\ rpc' = "wait"
                  /\ UNCHANGED rret
    /\ UNCHANGED <<dlVars, rangeVars, cacheVars, listenVars, verVars,
                   retries, ri>>

\* the call rejects: the catch block throws on the last round, else logs
\* and sets the timer of 1000 * (i + 1) ms
AttemptFails ==
    /\ rpc = "fetch"
    /\ \E error \in RetryErrors :
          /\ attempts' = Append(attempts, [ok |-> FALSE, res |-> error])
          /\ IF ri = retries - 1
             THEN /\ rret' = [kind |-> "error", res |-> error]
                  /\ rpc' = "done"
                  /\ UNCHANGED waits
             ELSE /\ waits' = Append(waits, 1000 * (ri + 1))
                  /\ rpc' = "wait"
                  /\ UNCHANGED rret
    /\ UNCHANGED <<dlVars, rangeVars, cacheVars, listenVars, verVars,
                   retries, ri>>

\* the timer fires: i++ and the loop head
WaitDone ==
    /\ rpc = "wait"
    /\ LoopHead(ri + 1)
    /\ UNCHANGED <<dlVars, rangeVars, cacheVars, listenVars, verVars,
                   retries, attempts, waits>>

NextRetry ==
    \/ CallFetchWithRetry
    \/ AttemptSucceeds
    \/ AttemptFails
    \/ WaitDone

SpecRetry == InitRetry /\ [][NextRetry]_vars /\ WF_vars(NextRetry)

(***************************************************************************)
(* Properties                                                              *)
(***************************************************************************)
\* the strategy downloadWithResume has chosen
Strategy ==
    IF calls.part > 0 THEN "parallel"
    ELSE IF calls.fallback > 0 THEN "fallback"
    ELSE "none"

\* both HEAD requests answered, with a size and with accept-ranges: bytes
ProbeSaysParallelOk == probe.size = "present" /\ probe.ranges = "bytes"

\* the probe failed: a HEAD request threw, or the size header was missing
ProbeFailed ==
    probe.size \in {"threw", "missing"} \/ probe.ranges = "threw"

HeadThrew == probe.size = "threw" \/ probe.ranges = "threw"

SomeSegmentFailed == \E i \in Parts : segState[i] = "Failed"

\* every byte handed to the write stream on `dest` so far, in order
HandedToDest == Concat(destFile.data, ws.buf)

WholeObject(size) == << <<0, size - 1>> >>

C2_ParallelFromThreshold ==
    Strategy # "none" =>
        (Strategy = "parallel" <=>
            (ProbeSaysParallelOk /\ objSize >= MULTIPART_MIN))

\* C2 amended: the parallel path is chosen exactly when the probe succeeded
\* with range support and the size is strictly above 10 MiB; a size of
\* exactly 10 MiB goes to the fallback.
C2_ParallelAboveThreshold ==
    Strategy # "none" =>
        /\ Strategy = "parallel" <=>
              (ProbeSaysParallelOk /\ objSize > MULTIPART_MIN)
        /\ Strategy = "parallel" => pc # "fallback" /\ calls.fallback = 0
        /\ Strategy = "fallback" => calls.part = 0

C2_Witness ==
    /\ Strategy = "fallback"
    /\ ProbeSaysParallelOk
    /\ objSize = MULTIPART_MIN

\* C3: while some segment is Failed the transfer has not succeeded, the
\* aggregator has not been invoked and no file exists at the destination.
C3_NoSuccessWithFailedSegment ==
    SomeSegmentFailed =>
        /\ pc \notin {"resolved", "aggregating"}
        /\ ~ws.open
        /\ ~destFile.exists
        /\ HandedToDest = <<>>

C3_Witness ==
    /\ segState[2] = "Failed"
    /\ retryCount[2] = RETRY_LIMIT
    /\ \A i \in Parts \ {2} : segState[i] = "Complete"
    /\ pc = "rejected"

\* C4: when the transfer has failed because of a failed segment, no
\* `.partN` file of the transfer exists.
C4_NoPartFileAfterFailure ==
    (pc = "rejected" /\ SomeSegmentFailed) =>
        \A i \in Parts : ~partFile[i].exists

\* C5: once all segments have completed, or once the transfer has failed,
\* the polling timer is no longer registered (so that no tick can fire).
C5_TimerStopped ==
    (pc = "rejected" \/ \A i \in Parts : segState[i] = "Complete") => ~interval

\* C6: if the probe reports no range support, downloadPart is never called,
\* no part file is ever created, and exactly one fallback stream is started,
\* whose bytes are the only ones written to the destination.
C6_NoRangeMeansOneFallback ==
    probe.ranges = "absent" =>
        /\ calls.part = 0
        /\ \A i \in Parts : segState[i] = "Pending" /\ ~partFile[i].exists
        /\ calls.fallback = 1
        /\ ws.open
        /\ HandedToDest =
              (IF fb.received = 0 THEN <<>> ELSE << <<0, fb.received - 1>> >>)

C6_Witness ==
    /\ probe.ranges = "absent"
    /\ objSize = 16000000
    /\ pc = "resolved"
    /\ destFile.data = WholeObject(objSize)

C8_FinalEventIsComplete ==
    (pc = "resolved" /\ Strategy = "parallel") =>
        /\ lastEvent.emitted
        /\ lastEvent.transferred = lastEvent.total

\* C9: of two consecutive progress events the later one never shows fewer
\* transferred bytes than the earlier one.
C9_ProgressMonotonic ==
    [][lastEvent'.transferred >= lastEvent.transferred]_vars

C9_Witness ==
    /\ lastEvent.emitted
    /\ Strategy = "parallel"
    /\ faulty # {}
    /\ lastEvent.transferred > 0
    /\ lastEvent.transferred < lastEvent.total
    /\ \E i \in Parts : FileSize(partFile[i]) > downloaded[i]

\* C10: the aggregator hands the parts to the destination in ascending index
\* order: the bytes handed over so far are exactly the bytes from 0 to the
\* end of the last part piped, and once the stream has finished the
\* destination holds exactly the bytes [0, totalSize).
C10_AggregatesInIndexOrder ==
    (Strategy = "parallel" /\ ws.open) =>
        LET piped == concat.idx + (IF concat.piped THEN 1 ELSE 0)
        IN /\ HandedToDest =
                 (IF piped = 0 THEN <<>>
                  ELSE << <<0, segRange[piped - 1][2]>> >>)
           /\ ws.finished =>
                 /\ destFile.data = WholeObject(fileSize)
                 /\ FileSize(destFile) = fileSize

\* the destination is complete although part 3 was fully written before
\* part 0 had received a byte (as the last tick saw)
C10_Witness ==
    /\ Strategy = "parallel"
    /\ ws.finished
    /\ destFile.data = WholeObject(16000000)
    /\ downloaded[3] = RangeLen(3)
    /\ downloaded[0] = 0

\* C11: when a multi-segment transfer has reported success, the destination
\* write stream has finished and the destination holds all totalSize bytes.
C11_SuccessMeansDestComplete ==
    (pc = "resolved" /\ Strategy = "parallel") =>
        /\ ws.finished
        /\ ws.buf = <<>>
        /\ destFile.data = WholeObject(fileSize)

\* parts deleted by concatParts so far
PartsConsumed == IF pc = "resolved" THEN PARTS ELSE concat.idx

\* C12: during aggregation the parts before the one being read have been
\* deleted and the others still exist (each part is deleted after it was
\* piped and before the next one is read); after a successful aggregation
\* no part file exists.
C12_PartsDeletedInTurn ==
    (Strategy = "parallel" /\ ws.open) =>
        /\ \A i \in Parts : partFile[i].exists <=> i >= PartsConsumed
        /\ concat.piped =>
              HandedToDest = << <<0, segRange[concat.idx][2]>> >>
        /\ pc = "resolved" => \A i \in Parts : ~partFile[i].exists

\* part 2 has been piped and is about to be deleted; parts 0 and 1 are gone
C12_Witness ==
    /\ pc = "aggregating"
    /\ concat = [idx |-> 2, piped |-> TRUE]
    /\ ~partFile[0].exists /\ ~partFile[1].exists
    /\ partFile[2].exists /\ partFile[3].exists

\* the states of the transfer's state machine
TransferState ==
    CASE pc \in {"getFileSize", "supportsRange"} -> "Probing"
      [] pc = "parallel" -> "Parallel"
      [] pc = "fallback" -> "Fallback"
      [] pc = "aggregating" -> "Aggregating"
      [] pc = "resolved" -> "Done"
      [] pc = "rejected" -> "Failed"

TransferEdges ==
    { <<"Probing", "Parallel">>, <<"Probing", "Fallback">>,
      <<"Parallel", "Aggregating">>, <<"Parallel", "Failed">>,
      <<"Fallback", "Done">>, <<"Fallback", "Failed">>,
      <<"Aggregating", "Done">>, <<"Aggregating", "Failed">> }

\* C13: the transfer moves only along Probing -> {Parallel | Fallback},
\* Parallel -> Aggregating, and from there (or from Fallback, or on a failed
\* segment from Parallel) to Done or Failed; Aggregating is entered from
\* Parallel only, and nothing leaves Done or Failed.
C13_TransferStateMachine ==
    [][TransferState' # TransferState =>
           <<TransferState, TransferState'>> \in TransferEdges]_vars

C13_Witness ==
    /\ TransferState = "Done"
    /\ Strategy = "parallel"
    /\ ws.finished
    /\ faulty # {}

\* C14: concatParts has been started only if every segment is Complete.
C14_AggregationAfterAllComplete ==
    (Strategy = "parallel" /\ (ws.open \/ pc \in {"aggregating", "resolved"})) =>
        \A i \in Parts : segState[i] = "Complete" /\ segReq[i] = "done"

\* aggregation has started although part 0 was the last to be written
C14_Witness ==
    /\ pc = "aggregating"
    /\ concat = [idx |-> 0, piped |-> FALSE]
    /\ downloaded[0] = 0
    /\ \A i \in Parts \ {0} : downloaded[i] = RangeLen(i)

C16_TransferredWithinTotal ==
    /\ (lastEvent.emitted /\ lastEvent.total > 0) =>
            lastEvent.transferred <= lastEvent.total
    /\ Strategy = "parallel" =>
            /\ SumTo([i \in Parts |-> FileSize(partFile[i])], PARTS) <= fileSize
            /\ SumTo(downloaded, PARTS) <= fileSize
            /\ lastEvent.emitted => lastEvent.total = fileSize

C16_Witness ==
    /\ Strategy = "parallel"
    /\ faulty # {}
    /\ interval
    /\ lastEvent.emitted
    /\ lastEvent.transferred = lastEvent.total
    /\ lastEvent.total = 16000000

\* the length of the k-th computed range (k from 1), end - start + 1
SegLen(k) == rRanges[k][2] - rRanges[k][1] + 1

\* C17 as stated: exactly PARTS segments; all but the last have length
\* floor(totalSize / PARTS), the last has the rest,
\* totalSize - (PARTS-1)*floor(totalSize / PARTS), and so is never shorter
\* than the others.
C17_LastAbsorbsRemainder ==
    rRanges # <<>> =>
        /\ Len(rRanges) = rParts
        /\ \A k \in 1 .. rParts - 1 : SegLen(k) = rSize \div rParts
        /\ SegLen(rParts) = rSize - (rParts - 1) * (rSize \div rParts)
        /\ \A k \in 1 .. rParts : SegLen(rParts) >= SegLen(k)

\* C17 amended: exactly PARTS segments, cut with partSize =
\* ceil(totalSize / PARTS): segment k (from 0) has length
\* min(partSize, totalSize - k*partSize), so no segment is longer than
\* partSize and the last is never longer than the others; when
\* (PARTS-1)*partSize < totalSize, segments 0..PARTS-2 have length partSize
\* and the last has the rest, totalSize - (PARTS-1)*partSize, at least 1;
\* otherwise the last length is zero or less.
C17_LastTakesShortRest ==
    rRanges # <<>> =>
        LET c == CeilDiv(rSize, rParts)
        IN /\ Len(rRanges) = rParts
           /\ \A k \in 1 .. rParts :
                 /\ SegLen(k) = Min(c, rSize - (k - 1) * c)
                 /\ SegLen(k) <= c
                 /\ SegLen(rParts) <= SegLen(k)
           /\ IF (rParts - 1) * c < rSize
              THEN /\ \A k \in 1 .. rParts - 1 : SegLen(k) = c
                   /\ SegLen(rParts) = rSize - (rParts - 1) * c
                   /\ SegLen(rParts) >= 1
              ELSE SegLen(rParts) <= 0

C17_Witness ==
    /\ rSize = 10
    /\ rParts = PARTS
    /\ rRanges = << <<0, 2>>, <<3, 5>>, <<6, 8>>, <<9, 9>> >>

\* C18: no file has two writers. A step changes at most one part file; a
\* part file that is created or grows is written by its own segment
\* downloader (its task not yet complete, the aggregator not yet started,
\* the bytes those of its own range), and a part file that disappears is
\* deleted by the aggregator while it handles that part, all downloads
\* being done. The destination is fed either by the aggregator (parallel
\* path, no fallback stream) or by the fallback stream (no segment task, no
\* aggregation), never by both.
C18_OneWriterPerFile ==
    [][/\ \A i \in Parts : partFile'[i] # partFile[i] =>
             /\ \A j \in Parts \ {i} : partFile'[j] = partFile[j]
             /\ IF partFile'[i].exists
                THEN /\ segState[i] \in {"InFlight", "Failed"}
                     /\ ~ws.open
                     /\ pc \notin {"aggregating", "resolved"}
                     /\ \/ partFile'[i].data = <<>>
                        \/ /\ Len(partFile'[i].data) = 1
                           /\ partFile'[i].data[1][1] = segRange[i][1]
                           /\ partFile'[i].data[1][2] <= segRange[i][2]
                ELSE /\ pc = "aggregating"
                     /\ concat = [idx |-> i, piped |-> TRUE]
                     /\ \A j \in Parts : segReq[j] = "done"
       /\ (destFile' # destFile \/ ws'.buf # ws.buf) =>
             /\ partFile' = partFile
             /\ IF calls.part > 0
                THEN /\ calls.fallback = 0 /\ fb = NoFallback
                     /\ \A j \in Parts : segReq[j] = "done"
                ELSE /\ calls.fallback = 1
                     /\ \A j \in Parts : segState[j] = "Pending"
                     /\ concat = [idx |-> 0, piped |-> FALSE]]_vars

C18_Witness ==
    /\ pc = "aggregating"
    /\ concat = [idx |-> 1, piped |-> FALSE]
    /\ ~partFile[0].exists
    /\ partFile[1].exists
    /\ destFile.exists
    /\ destFile.data = << <<0, 3999999>> >>
    /\ ws.buf = <<>>

\* C19: a tick of the progress monitor changes no part file and not the
\* destination (nor its write stream); it sets each downloaded[i] to the
\* size of part file i when the file exists, a part file that does not
\* exist counts 0, and the event it prints carries the sum.
C19_TickOnlyReads ==
    [][(calls.part > 0 /\ (lastEvent' # lastEvent \/ downloaded' # downloaded))
         => /\ partFile' = partFile
            /\ destFile' = destFile
            /\ ws' = ws
            /\ \A i \in Parts :
                  downloaded'[i] = IF partFile[i].exists
                                   THEN FileSize(partFile[i]) ELSE 0
            /\ lastEvent'.emitted
            /\ lastEvent'.transferred = SumTo(downloaded', PARTS)]_vars

C19_Witness ==
    /\ interval
    /\ lastEvent.emitted
    /\ lastEvent.transferred = downloaded[0]
    /\ downloaded[0] > 0
    /\ \A i \in Parts \ {0} : downloaded[i] = 0
    /\ ~partFile[3].exists
    /\ partFile[0].exists

\* the API answer from which fetchBedrockVersions can build its result: the
\* request succeeded and the body parsed into an object with usable versions
UsableAnswer ==
    /\ api.kind = "resolved"
    /\ IsJson(api.text)
    /\ ~IsNull(api.text)
    /\ "versions" \in DOMAIN Parse(api.text)
    /\ script = "B" => ~FilterThrows(Parse(api.text))

\* C20: fetchBedrockVersions overwrites the cache file only after the fetch
\* succeeded and its answer parsed, and then with the result of this call;
\* when the fetch (or the parsing) fails it leaves the cache file as it is
\* and returns the content of the cache file if the file exists; it throws
\* only when there is no cache file, and then the error that made it fail.
C20_CacheOnlyAfterSuccess ==
    [][/\ cacheFile' # cacheFile =>
             /\ cpc = "fetching"
             /\ UsableAnswer'
             /\ cacheFile'.exists
             /\ Parse(cacheFile'.text).fetched_at = nCalls
       /\ (cpc = "fetching" /\ cpc' = "idle" /\ ~UsableAnswer') =>
             /\ cacheFile' = cacheFile
             /\ IF cacheFile.exists
                THEN ret' = [kind |-> "value", val |-> Parse(cacheFile.text)]
                ELSE /\ ret'.kind = "error"
                     /\ api'.kind = "rejected" => ret'.err = api'.err
       /\ (cpc = "fetching" /\ cpc' = "idle" /\ ret'.kind = "error") =>
             /\ ~cacheFile.exists
             /\ ~cacheFile'.exists
             /\ ~UsableAnswer'
       /\ (cpc = "fetching" /\ cpc' = "idle") => ret'.kind # "none"]_vars

C20_Witness ==
    /\ cpc = "idle"
    /\ nCalls = 2
    /\ api.kind = "rejected"
    /\ cacheFile.exists
    /\ Parse(cacheFile.text).fetched_at = 1
    /\ ret = [kind |-> "value", val |-> Parse(cacheFile.text)]

\* C21: when a multi-segment transfer has been reported Failed, every
\* segment task is Complete or Failed: no sibling is still InFlight (and so
\* none can write its part file any more).
C21_SiblingsTerminalAtFailure ==
    (pc = "rejected" /\ calls.part > 0) =>
        \A i \in Parts : segState[i] \in {"Complete", "Failed"}

\* C22: with a progress callback both listeners are registered before the
\* backend command is invoked, and once the returned promise has settled
\* (resolved or rejected, whichever step failed) no listener of the call is
\* registered any more, so no event reaches the callback afterwards.
C22_ListenersReleasedOnSettle ==
    /\ (onProgress /\ invoked) =>
           /\ unlisten = [progress |-> TRUE, error |-> TRUE]
           /\ lret = "none" =>
                  listeners = {<<lfn, "progress">>, <<lfn, "error">>}
    /\ lret # "none" =>
           /\ listeners = {}
           /\ delivered.after = 0

\* (major, minor, patch) order: a before or equal to b
LexLeq(a, b) ==
    \/ a = b
    \/ \E i \in 1 .. 3 : a[i] < b[i] /\ \A j \in 1 .. i - 1 : a[j] = b[j]

\* C23: versionInRange(v) is true exactly when v lies between 1.16.40 and
\* 1.21.94 inclusive in lexicographic (major, minor, patch) order; so 1.17.0
\* and 1.20.95 are in range, 1.16.39 and 1.21.95 are not.
C23_RangeIsLexicographic ==
    verResult # "none" =>
        LET cur == ParseVersion(verStr)
        IN  /\ verResult = "true" <=>
                  (LexLeq(<<1, 16, 40>>, cur) /\ LexLeq(cur, <<1, 21, 94>>))
            /\ cur \in {<<1, 17, 0>>, <<1, 20, 95>>} => verResult = "true"
            /\ cur \in {<<1, 16, 39>>, <<1, 21, 95>>} => verResult = "false"

\* C24: for retries >= 1, fetchWithRetry makes at most `retries` attempts;
\* only the last attempt made can be a success, and its result is what the
\* function returns; every failed attempt that is followed by another one
\* is followed by a wait first (of 1000 ms times its number); after
\* `retries` failures the function throws the error of the last attempt;
\* and every call ends.
C24_RetryContract ==
    /\ [](retries >= 1 =>
            /\ Len(attempts) <= retries
            /\ \A k \in 1 .. Len(attempts) - 1 : ~attempts[k].ok
            /\ \A k \in 1 .. Len(waits) : waits[k] = 1000 * k
            /\ rpc = "fetch" => Len(waits) = Len(attempts)
            /\ rpc = "wait" =>
                  Len(waits) = Len(attempts) /\ Len(attempts) < retries
            /\ rpc = "done" =>
                  /\ attempts # <<>>
                  /\ Len(waits) = Len(attempts) - 1
                  /\ rret.res = attempts[Len(attempts)].res
                  /\ IF attempts[Len(attempts)].ok
                     THEN rret.kind = "value"
                     ELSE rret.kind = "error" /\ Len(attempts) = retries
            /\ rpc # "done" => rret.kind = "none")
    /\ <>(rpc = "done")

C24_Witness ==
    /\ retries = 3
    /\ rpc = "done"
    /\ attempts = << [ok |-> FALSE, res |-> "HTTP 500"],
                     [ok |-> FALSE, res |-> "HTTP 500"],
                     [ok |-> FALSE, res |-> "ECONNRESET"] >>
    /\ waits = <<1000, 2000>>
    /\ rret = [kind |-> "error", res |-> "ECONNRESET"]

====
